---- MODULE Spec2Model ----
(***************************************************************************)
(* State-machine model of the flat-listing watcher: main.py (poll loop,    *)
(* extraction, district lookup, CSV catalog, Telegram dispatch) and the    *)
(* direct call of write_telegram_message made by                           *)
(* test_send_message_tg_bot.py.                                            *)
(*                                                                         *)
(* Abstractions: a CSV row is represented by the listing_id it stores      *)
(* ("" for a row written from an empty dict); numeric text fields are      *)
(* represented by the value float() yields, with a flag telling whether    *)
(* float() raises ValueError; time.sleep() calls are pc positions.         *)
(***************************************************************************)
EXTENDS Integers, Sequences, FiniteSets, TLC

(* ------------------------------ bounds --------------------------------- *)
MaxBatch == 2
MaxRows == 2
MaxDrivers == 2
MaxDispatch == 7
MaxRecipients == 2

(* --------------------------- configuration ----------------------------- *)
MINIMAL_SIZE == 50
MAXIMAL_BASE_RENT == 800
FORBIDDEN_DISTRICTS == {"Spandau"}
WBS_ROOM_LIMIT == 2
MAX_RENDERED == 5
MAX_RETRY == 2

\* os.getenv("HAS_BALKONY"): a string, here the one asking for a balcony.
HAS_BALKONY == "True"

\* The lists json.loads(os.environ["USER_IDS"]) can yield when the variable
\* is set: no recipient, or the configured recipients.
Recipients == [i \in 1..MaxRecipients |-> i]
UserIdsValues == { <<>>, Recipients }

(* ------------------------------ raw items ------------------------------ *)
\* A raw item (WebElement): its id attribute, the number of fields
\* re.split yields on its text, whether the numeric fields parse, the
\* parsed values, the address field, the trailing location field, and the
\* presence of the balcony, link and WBS sub-elements.
Item(id, n, num, rooms, size, rent, addr, loc, balk, link, wbs) ==
    [id |-> id, nfields |-> n, numeric |-> num, rooms |-> rooms,
     size |-> size, rent |-> rent, address |-> addr, location |-> loc,
     balkony |-> balk, link |-> link, wbs |-> wbs]

RawItems ==
    { Item("A1", 5, TRUE,  3, 60, 750, "Str 1", "Mitte",   TRUE,  TRUE,  FALSE),
      Item("B2", 4, TRUE,  2, 60, 750, "Str 2", "",        FALSE, TRUE,  TRUE),
      Item("A1", 3, TRUE,  3, 60, 750, "",      "",        TRUE,  TRUE,  FALSE),
      Item("B2", 4, FALSE, 0, 0,  0,   "Str 2", "",        FALSE, TRUE,  FALSE),
      Item("A1", 4, TRUE,  3, 60, 750, "Str 1", "",        TRUE,  FALSE, FALSE) }

\* The district a successful OSM lookup yields (osm_address[-5]).
OsmDistricts == {"Pankow"}

\* Exceptions of the lookup other than ReadTimeout: response_json[0] on an
\* empty result list, and requests' ConnectionError (which ConnectTimeout
\* subclasses) when the service cannot be reached.
OsmErrors == {"IndexError", "ConnectionError"}

(* ------------------------------ listings ------------------------------- *)
\* The dict get_listing_details returns for fewer than 4 fields: {}.
EmptyDict == [k \in {} |-> ""]

flat_details(item, location) ==
    [listing_id |-> item.id, number_rooms |-> item.rooms,
     size_qm |-> item.size, base_rent |-> item.rent,
     address |-> item.address, district |-> location,
     has_balkony |-> item.balkony, weblink |-> "href",
     wbs_required |-> item.wbs]

HasKey(d, k) == k \in DOMAIN d

\* The outcome of get_listing_details up to the choice of the location:
\* "empty" (returns {}), "ValueError", "NoSuchElementException",
\* "location5" (trailing field), "osm" (lookup needed), "unknown".
DetailsOutcome(item) ==
    IF item.nfields < 4 THEN "empty"
    ELSE IF ~item.numeric THEN "ValueError"
    ELSE IF ~item.link THEN "NoSuchElementException"
    ELSE IF item.nfields = 5 THEN "location5"
    ELSE IF item.address # "" THEN "osm"
    ELSE "unknown"

\* The exceptions get_listings catches around get_listing_details.
CaughtInGetListings == {"ValueError", "AttributeError", "IndexError"}

(* --------------------------- catalog (CSV) ----------------------------- *)
\* csv.DictReader: one dict per data row, keyed by the header's fields.
\* Only the listing_id column is read by the program.
ReadRows(hdr, rws) ==
    [i \in DOMAIN rws |->
        IF hdr = "full" THEN [listing_id |-> rws[i]] ELSE [timestamp |-> "ts"]]

\* csv.DictWriter.writerow under the header chosen from listings[0]: the
\* cell written in the listing_id column (restval "" for a missing key).
RowOf(listing) == IF HasKey(listing, "listing_id") THEN listing.listing_id ELSE ""

\* fieldnames = list(listings[0].keys()) + ["timestamp"]
HeaderOf(listings) == IF listings[1] = EmptyDict THEN "ts" ELSE "full"

\* DictWriter raises ValueError for a dict with keys outside fieldnames:
\* the index of the first such listing, 0 if there is none.
FirstExtraKeys(hdr, listings) ==
    IF hdr = "full" THEN 0
    ELSE LET bad == { i \in DOMAIN listings : listings[i] # EmptyDict }
         IN IF bad = {} THEN 0 ELSE CHOOSE i \in bad : \A j \in bad : i <= j

Prefix(s, k) == SubSeq(s, 1, k)

(* --------------------------- change detection -------------------------- *)
\* listing["listing_id"] raises KeyError on a dict without that key.
DiffRaises(current, old) ==
    \/ \E i \in DOMAIN old : ~HasKey(old[i], "listing_id")
    \/ \E i \in DOMAIN current : ~HasKey(current[i], "listing_id")

OldListingIds(old) == [i \in DOMAIN old |-> old[i].listing_id]

InSeq(x, s) == \E i \in DOMAIN s : s[i] = x

\* Mutant: the membership test dropped, every fetched listing counts as new.
NewListingsUnfiltered(current, old_ids) == current

\* new_listings: the listings of current whose id is not in old_listing_ids.
NewListings(current, old_ids) ==
    SelectSeq(current, LAMBDA l : ~InSeq(l.listing_id, old_ids))

(* ------------------------------- filter -------------------------------- *)
\* Mutant: the configured string parsed to a bool before the comparison.
PyBoolEqParsedStr(b, s) == (b = (s = "True"))

\* Python's == between a bool (has_balkony) and the str os.getenv returns:
\* values of different types never compare equal.
PyBoolEqStr(b, s) == FALSE

size_criterion(l) == l.size_qm >= MINIMAL_SIZE
base_rent_criterion(l) == l.base_rent <= MAXIMAL_BASE_RENT
district_criterion(l) == l.district \notin FORBIDDEN_DISTRICTS
balkony_criterion(l, hb) == PyBoolEqStr(l.has_balkony, hb)
wbs_criterion(l) == ~l.wbs_required \/ l.number_rooms <= WBS_ROOM_LIMIT

Relevant(l, hb) ==
    /\ size_criterion(l)
    /\ base_rent_criterion(l)
    /\ balkony_criterion(l, hb)
    /\ district_criterion(l)
    /\ wbs_criterion(l)

NewRelevantListings(new, hb) == SelectSeq(new, LAMBDA l : Relevant(l, hb))

\* Mutant: the dispatcher called whatever the list holds.
DispatchUnconditionally(relevant) == TRUE

\* if new_relevant_listings: (line 119), the truth value of a list.
ShouldDispatch(relevant) == relevant # <<>>

(* ------------------------------ dispatch ------------------------------- *)
\* _assemble_message: the rendered block of one listing.
AssembleMessage(l) == [kind |-> "listing", id |-> l.listing_id, n |-> 0]
TruncatedLine(k) == [kind |-> "more", id |-> "", n |-> k]

\* len(interesting_listings) < 5: every listing is rendered without a
\* trailing line; otherwise the first 5 and the trailing line.
RendersAll(n) == n < MAX_RENDERED

Messages(listings) ==
    IF RendersAll(Len(listings))
    THEN [i \in DOMAIN listings |-> AssembleMessage(listings[i])]
    ELSE [i \in 1..MAX_RENDERED |-> AssembleMessage(listings[i])]
         \o << TruncatedLine(Len(listings) - MAX_RENDERED) >>

\* The listing passed by test_send_message_tg_bot.py, and lists of such.
TestListing(i) ==
    [listing_id |-> "L" \o ToString(i), number_rooms |-> 3, size_qm |-> 75,
     base_rent |-> 1200, address |-> "Some Address",
     district |-> "Friedrichshain", has_balkony |-> TRUE,
     weblink |-> "https://example.com", wbs_required |-> FALSE]
DispatchInputs == { [i \in 1..n |-> TestListing(i)] : n \in 0..MaxDispatch }

(* ------------------------------- state --------------------------------- *)
VARIABLES
    entry,                  \* script run: "main" (main.py) or "test" (test_send_message_tg_bot.py)
    pc,                     \* position of the single thread of control
    phase,                  \* call site of get_listings: "baseline" (line 74) or "loop" (line 80)
    crash,                  \* the uncaught exception that ended the process, "" if none
    fileExists,             \* os.path.isfile(SCANNED_FLATS_CSV)
    header,                 \* header row of the CSV: "full", "ts" (timestamp only), "" (none)
    rows,                   \* data rows of the CSV, each the listing_id cell
    cacheExists,            \* os.path.isfile(UNKNOWN_OSM_ADRESSES)
    cacheFile,              \* the list stored in the unresolved-address file
    driver,                 \* monitor_changes' driver
    ldriver,                \* get_listings' local driver
    ndrivers,               \* drivers acquired by get_driver so far (none is ever quit)
    old_listings,
    items,                  \* the elements of driver.find_elements' result the loop has reached
    structured_listings,
    first_time_listings,
    current_listings,
    old_listing_ids,
    new_listings,
    new_relevant_listings,  \* also the argument of write_telegram_message
    evaluated,              \* the listings the filter loop iterated over
    unknown_osm_addresses,
    retry,
    lookups,                \* requests.get calls issued by the current resolve call
    osm_error,              \* the exception the except Exception clause is handling, "" if none
    message,
    user_ids,
    sidx,                   \* position of the send loop in user_ids
    paused,                 \* TRUE once time.sleep(5) has run in this cycle
    sendLog,                \* every bot.send_message attempt: recipient, text, outcome
    firstRunIds,            \* ids of the listings the baseline fetch returned
    baseline,               \* TRUE once the baseline pass has persisted a row
    first_run,              \* TRUE when monitor_changes found no catalog file at its start
    empty_fetch,            \* TRUE from a poll cycle's fetch that yielded no listing until the next page load
    io_failed,              \* TRUE once a catalog read or append has raised IOError / csv.Error
    dispatched              \* ids of the listings passed to write_telegram_message so far

cfgVars == << entry >>
csvVars == << fileExists, header, rows >>
cacheVars == << cacheExists, cacheFile >>
driverVars == << driver, ldriver, ndrivers >>
fetchVars == << items, structured_listings >>
cycleVars == << first_time_listings, old_listings, current_listings, old_listing_ids, new_listings,
                new_relevant_listings, evaluated >>
osmVars == << unknown_osm_addresses, retry, lookups, osm_error >>
sendVars == << message, user_ids, sidx, sendLog, paused >>
histVars == << firstRunIds, baseline, first_run, empty_fetch, io_failed, dispatched >>

vars == << pc, phase, crash, cfgVars, csvVars, cacheVars, driverVars, fetchVars,
           cycleVars, osmVars, sendVars, histVars >>

InitLocals ==
    /\ phase = "loop" /\ crash = ""
    /\ cacheExists = FALSE /\ cacheFile = <<>>
    /\ driver = 0 /\ ldriver = 0 /\ ndrivers = 0
    /\ old_listings = <<>> /\ items = <<>>
    /\ structured_listings = <<>> /\ first_time_listings = <<>>
    /\ current_listings = <<>>
    /\ old_listing_ids = <<>> /\ new_listings = <<>> /\ evaluated = <<>>
    /\ unknown_osm_addresses = <<>> /\ retry = 0 /\ lookups = 0
    /\ osm_error = ""
    /\ message = <<>> /\ user_ids = <<>> /\ sidx = 0 /\ sendLog = <<>>
    /\ paused = FALSE
    /\ firstRunIds = {} /\ baseline = FALSE /\ first_run = FALSE
    /\ empty_fetch = FALSE
    /\ io_failed = FALSE /\ dispatched = {}

\* main.py started with the catalog absent or left by an earlier run.
InitMain ==
    /\ entry = "main" /\ pc = "main"
    /\ \/ fileExists = FALSE /\ header = "" /\ rows = <<>>
       \/ fileExists = TRUE /\ header = "full" /\ rows = << "A1" >>
    /\ new_relevant_listings = <<>>
    /\ InitLocals

\* write_telegram_message called directly with a list of listings.
InitTest ==
    /\ entry = "test" /\ pc = "notify"
    /\ fileExists = FALSE /\ header = "" /\ rows = <<>>
    /\ new_relevant_listings \in DispatchInputs
    /\ InitLocals

Init == InitMain \/ InitTest

Crash(cause) == pc' = "crashed" /\ crash' = cause

\* The locals of one poll cycle, as they are when the next one starts.
ResetCycle ==
    /\ first_time_listings' = <<>>
    /\ old_listings' = <<>> /\ current_listings' = <<>>
    /\ old_listing_ids' = <<>> /\ new_listings' = <<>>
    /\ new_relevant_listings' = <<>> /\ evaluated' = <<>>
    /\ items' = <<>> /\ structured_listings' = <<>>
    /\ message' = <<>> /\ user_ids' = <<>> /\ sidx' = 0 /\ paused' = FALSE

(* ----------------------------- main, start ----------------------------- *)
\* The drivers released so far: main.py calls driver.quit() nowhere, has no
\* with block over a driver and no finally clause.
DriversQuit == {}

\* The drivers acquired by get_driver and not released.
UnreleasedDrivers == (1..ndrivers) \ DriversQuit

\* main(): driver = get_driver(); monitor_changes(driver, interval) up to
\* the isfile test that chooses between the baseline pass and the loop.
Main ==
    /\ pc = "main"
    /\ driver' = 1 /\ ndrivers' = 1
    /\ ldriver' = IF ~fileExists THEN 1 ELSE 0
    /\ IF ~fileExists
       THEN pc' = "fetch" /\ phase' = "baseline"
       ELSE pc' = "read" /\ phase' = "loop"
    /\ first_run' = ~fileExists
    /\ UNCHANGED << crash, cfgVars, csvVars, cacheVars, fetchVars, cycleVars,
                    osmVars, sendVars, firstRunIds, baseline, empty_fetch,
                    io_failed, dispatched >>

\* old_listings = get_listings_from_csv(): the rows, or [] when the file
\* is absent or reading raises IOError / csv.Error.
GetListingsFromCsv ==
    /\ pc = "read"
    /\ \/ /\ old_listings' = IF fileExists THEN ReadRows(header, rows) ELSE <<>>
          /\ UNCHANGED io_failed
       \/ /\ fileExists
          /\ old_listings' = <<>>
          /\ io_failed' = TRUE
    /\ ldriver' = driver
    /\ pc' = "fetch"
    /\ UNCHANGED << phase, crash, cfgVars, csvVars, cacheVars, driver, ndrivers,
                    fetchVars, first_time_listings, current_listings,
                    old_listing_ids, new_listings, new_relevant_listings,
                    evaluated, osmVars, sendVars, firstRunIds, baseline,
                    first_run, empty_fetch, dispatched >>

(* ----------------------------- get_listings ---------------------------- *)
\* TimeoutException: driver = get_driver() rebinds the local only.
FetchTimeout ==
    /\ pc = "fetch"
    /\ ndrivers < MaxDrivers
    /\ ndrivers' = ndrivers + 1
    /\ ldriver' = ndrivers + 1
    /\ UNCHANGED << pc, phase, crash, cfgVars, csvVars, cacheVars, driver,
                    fetchVars, cycleVars, osmVars, sendVars, histVars >>

\* The page loads and listings = driver.find_elements(...) is taken with
\* the local driver, which is not used afterwards. The list is of at most
\* MaxBatch elements; each element is drawn when the loop reaches it.
FetchOk ==
    /\ pc = "fetch"
    /\ items' = <<>>
    /\ structured_listings' = <<>>
    /\ ldriver' = 0
    /\ empty_fetch' = FALSE
    /\ pc' = "extract"
    /\ UNCHANGED << phase, crash, cfgVars, csvVars, cacheVars, driver, ndrivers,
                    cycleVars, osmVars, sendVars, firstRunIds, baseline,
                    first_run, io_failed, dispatched >>

\* One iteration of the extraction loop for an element that needs no lookup.
ExtractItem ==
    /\ pc = "extract"
    /\ Len(items) < MaxBatch
    /\ \E item \in RawItems :
        LET out == DetailsOutcome(item) IN
        /\ out # "osm"
        /\ items' = Append(items, item)
        /\ CASE out = "empty" ->
                  /\ structured_listings' = Append(structured_listings, EmptyDict)
                  /\ UNCHANGED << pc, crash >>
             [] out = "location5" ->
                  /\ structured_listings' =
                       Append(structured_listings, flat_details(item, item.location))
                  /\ UNCHANGED << pc, crash >>
             [] out = "unknown" ->
                  /\ structured_listings' =
                       Append(structured_listings, flat_details(item, "Unknown"))
                  /\ UNCHANGED << pc, crash >>
             [] out \in CaughtInGetListings ->
                  /\ UNCHANGED << pc, crash, structured_listings >>
             [] OTHER ->
                  /\ Crash(out)
                  /\ UNCHANGED structured_listings
    /\ UNCHANGED << phase, cfgVars, csvVars, cacheVars, driverVars,
                    cycleVars, osmVars, sendVars, histVars >>

(* ------------------------- get_district_from_osm ----------------------- *)
\* The element get_listing_details is working on.
CurrentItem == items[Len(items)]

OsmAddress == CurrentItem.address \o " Berlin"

\* get_listing_details after the location is known: the dict is appended
\* to structured_listings and the extraction loop moves on.
FinishDetails(location) ==
    /\ structured_listings' =
         Append(structured_listings, flat_details(CurrentItem, location))
    /\ pc' = "extract"

\* Mutant: the cache test finds every address absent.
AddressNeverCached(address, cache) == FALSE

\* address in unknown_osm_addresses (the test of line 264).
AddressCached(address, cache) == InSeq(address, cache)

\* get_listing_details reaches get_district_from_osm(address + " Berlin").
OsmCall ==
    /\ pc = "extract"
    /\ Len(items) < MaxBatch
    /\ \E item \in RawItems :
         /\ DetailsOutcome(item) = "osm"
         /\ items' = Append(items, item)
    /\ pc' = "osm_load"
    /\ UNCHANGED << phase, crash, cfgVars, csvVars, cacheVars, driverVars,
                    structured_listings, cycleVars, osmVars, sendVars, histVars >>

\* get_unknown_osm_adresses, then the cache test of line 264. Creating or
\* loading the file may raise (OSError, yaml.YAMLError): nothing catches it.
GetUnknownOsmAdresses ==
    /\ pc = "osm_load"
    /\ \/ /\ cacheExists' = TRUE
          /\ cacheFile' = IF cacheExists THEN cacheFile ELSE <<>>
          /\ unknown_osm_addresses' = cacheFile'
          /\ retry' = 0
          /\ lookups' = 0
          /\ osm_error' = ""
          /\ IF AddressCached(OsmAddress, cacheFile')
             THEN FinishDetails("Unknown")
             ELSE pc' = "osm_req" /\ UNCHANGED structured_listings
          /\ UNCHANGED crash
       \/ /\ Crash("OSError: unkown_osm_adresses.yaml")
          /\ UNCHANGED << cacheVars, osmVars, structured_listings >>
    /\ UNCHANGED << phase, cfgVars, csvVars, driverVars, items, cycleVars,
                    sendVars, histVars >>

\* requests.get answered with a result whose display_name has the district.
OsmRequestOk ==
    /\ pc = "osm_req"
    /\ lookups' = lookups + 1
    /\ \E d \in OsmDistricts : FinishDetails(d)
    /\ UNCHANGED << phase, crash, cfgVars, csvVars, cacheVars, driverVars, items,
                    cycleVars, unknown_osm_addresses, retry, osm_error, sendVars,
                    histVars >>

\* requests.exceptions.ReadTimeout: retry += 1; the while loop ends once
\* retry > 2 and "Unknown" is returned without touching the cache.
OsmRequestTimeout ==
    /\ pc = "osm_req"
    /\ lookups' = lookups + 1
    /\ retry' = retry + 1
    /\ IF retry' <= MAX_RETRY
       THEN UNCHANGED << pc, structured_listings >>
       ELSE FinishDetails("Unknown")
    /\ UNCHANGED << phase, crash, cfgVars, csvVars, cacheVars, driverVars, items,
                    cycleVars, unknown_osm_addresses, osm_error, sendVars,
                    histVars >>

\* Any other exception (no result, malformed response, connection error):
\* the address is appended to the list, which is then saved.
OsmRequestError ==
    /\ pc = "osm_req"
    /\ lookups' = lookups + 1
    /\ osm_error' \in OsmErrors
    /\ unknown_osm_addresses' = Append(unknown_osm_addresses, OsmAddress)
    /\ pc' = "osm_save"
    /\ UNCHANGED << phase, crash, cfgVars, csvVars, cacheVars, driverVars,
                    fetchVars, cycleVars, retry, sendVars, histVars >>

\* _save_invalid_addresses inside the except block: an OSError raised by
\* open or yaml.dump leaves the handler and get_listings uncaught.
SaveInvalidAddresses ==
    /\ pc = "osm_save"
    /\ \/ /\ cacheFile' = unknown_osm_addresses
          /\ FinishDetails("Unknown")
          /\ osm_error' = ""
          /\ UNCHANGED crash
       \/ /\ Crash("OSError: unkown_osm_adresses.yaml")
          /\ UNCHANGED << cacheFile, structured_listings, osm_error >>
    /\ UNCHANGED << phase, cfgVars, csvVars, cacheExists, driverVars, items,
                    cycleVars, unknown_osm_addresses, retry, lookups, sendVars,
                    histVars >>

(* ----------------------- monitor_changes, the cycle -------------------- *)
Ids(listings) == { RowOf(listings[i]) : i \in DOMAIN listings }

\* get_listings returns: its locals, and those of the resolver calls it
\* made, are gone.
GetListingsReturns ==
    /\ items' = <<>> /\ structured_listings' = <<>>
    /\ unknown_osm_addresses' = <<>> /\ retry' = 0 /\ lookups' = 0
    /\ osm_error' = ""
    /\ ldriver' = 0

\* first_time_listings = get_listings(driver); if first_time_listings: save.
FirstTimeListings ==
    /\ pc = "extract"
    /\ phase = "baseline"
    /\ GetListingsReturns
    /\ first_time_listings' = structured_listings
    /\ firstRunIds' = Ids(structured_listings)
    /\ IF structured_listings # <<>>
       THEN pc' = "save" /\ UNCHANGED phase
       ELSE pc' = "read" /\ phase' = "loop"
    /\ UNCHANGED << crash, cfgVars, csvVars, cacheVars, driver, ndrivers,
                    old_listings, current_listings, old_listing_ids,
                    new_listings, new_relevant_listings, evaluated, sendVars,
                    baseline, first_run, empty_fetch, io_failed, dispatched >>

\* Mutant: an empty fetch falls through to the interval sleep.
SleepTarget == "sleep"

\* continue (line 83): control goes to the top of while True (line 79).
ContinueTarget == "read"

\* current_listings = get_listings(driver); if not current_listings: continue.
CurrentListings ==
    /\ pc = "extract"
    /\ phase = "loop"
    /\ empty_fetch' = (structured_listings = <<>>)
    /\ IF structured_listings = <<>>
       THEN /\ pc' = ContinueTarget
            /\ ResetCycle
       ELSE /\ pc' = "diff"
            /\ current_listings' = structured_listings
            /\ GetListingsReturns
            /\ UNCHANGED << first_time_listings, old_listings, old_listing_ids,
                            new_listings, new_relevant_listings, evaluated,
                            message, user_ids, sidx, paused >>
    /\ IF structured_listings = <<>>
       THEN /\ unknown_osm_addresses' = <<>> /\ retry' = 0 /\ lookups' = 0
            /\ osm_error' = "" /\ ldriver' = 0
       ELSE TRUE
    /\ UNCHANGED << phase, crash, cfgVars, csvVars, cacheVars, driver, ndrivers,
                    sendLog, firstRunIds, baseline, first_run, io_failed,
                    dispatched >>

\* Lines 85-96: old_listing_ids, new_listings, and the branch on new_listings.
Diff ==
    /\ pc = "diff"
    /\ IF DiffRaises(current_listings, old_listings)
       THEN /\ Crash("KeyError: listing_id")
            /\ UNCHANGED << old_listing_ids, new_listings >>
       ELSE /\ old_listing_ids' = OldListingIds(old_listings)
            /\ new_listings' = NewListings(current_listings, old_listing_ids')
            /\ pc' = IF new_listings' # <<>> THEN "save" ELSE "sleep"
            /\ UNCHANGED crash
    /\ UNCHANGED << phase, cfgVars, csvVars, cacheVars, driverVars, fetchVars,
                    first_time_listings, old_listings, current_listings,
                    new_relevant_listings, evaluated, osmVars, sendVars,
                    histVars >>

(* -------------------------- save_listings_to_csv ----------------------- *)
\* The argument of the call: first_time_listings (line 76) or new_listings
\* (line 96).
SaveArgument == IF phase = "baseline" THEN first_time_listings ELSE new_listings

\* Where control goes after save_listings_to_csv returns.
AfterSave ==
    IF phase = "baseline"
    THEN pc' = "read" /\ phase' = "loop"
    ELSE pc' = "filter" /\ UNCHANGED phase

\* open(..., mode="a") raises IOError: caught and logged, nothing written.
SaveOpenFails ==
    /\ pc = "save"
    /\ AfterSave
    /\ io_failed' = TRUE
    /\ UNCHANGED << crash, cfgVars, csvVars, cacheVars, driverVars, fetchVars,
                    cycleVars, osmVars, sendVars, firstRunIds, baseline,
                    first_run, empty_fetch, dispatched >>

\* The file is opened, the header written if the file did not exist, and
\* rows are written in order. Row k+1 may raise IOError (caught: k rows
\* stay), or ValueError for a dict with keys outside fieldnames (not caught).
SaveWrites ==
    /\ pc = "save"
    /\ Len(rows) + Len(SaveArgument) <= MaxRows
    /\ LET listings == SaveArgument
           bad == FirstExtraKeys(HeaderOf(listings), listings)
           n == IF bad > 0 THEN bad - 1 ELSE Len(listings)
       IN \E k \in 0..n :
            /\ fileExists' = TRUE
            /\ header' = IF fileExists THEN header ELSE HeaderOf(listings)
            /\ rows' = rows \o [i \in 1..k |-> RowOf(listings[i])]
            /\ baseline' = (baseline \/ (phase = "baseline" /\ k > 0))
            /\ io_failed' = (io_failed \/ k < n)
            /\ IF k = n /\ bad > 0
               THEN Crash("ValueError: fieldnames") /\ UNCHANGED phase
               ELSE AfterSave /\ UNCHANGED crash
    /\ UNCHANGED << cfgVars, cacheVars, driverVars, fetchVars, cycleVars,
                    osmVars, sendVars, firstRunIds, first_run, empty_fetch,
                    dispatched >>

(* ------------------------------- filter -------------------------------- *)
\* Mutant: the filter loop runs over the whole fetched batch and keeps
\* every listing of it.
FilterCurrentListings ==
    /\ pc = "filter"
    /\ evaluated' = current_listings
    /\ new_relevant_listings' = current_listings
    /\ pc' = IF ShouldDispatch(new_relevant_listings') THEN "notify" ELSE "sleep"
    /\ UNCHANGED << phase, crash, cfgVars, csvVars, cacheVars, driverVars,
                    fetchVars, first_time_listings, old_listings,
                    current_listings, old_listing_ids, new_listings, osmVars,
                    sendVars, histVars >>

\* Lines 98-119: the filter loop over new_listings and the branch on
\* new_relevant_listings.
Filter ==
    /\ pc = "filter"
    /\ evaluated' = new_listings
    /\ new_relevant_listings' = NewRelevantListings(new_listings, HAS_BALKONY)
    /\ pc' = IF ShouldDispatch(new_relevant_listings') THEN "notify" ELSE "sleep"
    /\ UNCHANGED << phase, crash, cfgVars, csvVars, cacheVars, driverVars,
                    fetchVars, first_time_listings, old_listings,
                    current_listings, old_listing_ids, new_listings, osmVars,
                    sendVars, histVars >>

(* ------------------------ write_telegram_message ----------------------- *)
\* Lines 368-398: os.environ["USER_IDS"] is read when the function is
\* called (KeyError when unset, outside the try); then the message is
\* composed and the send loop starts.
WriteTelegramMessage ==
    /\ pc = "notify"
    /\ dispatched' = dispatched \cup Ids(new_relevant_listings)
    /\ \/ /\ Crash("KeyError: USER_IDS")
          /\ UNCHANGED << message, user_ids, sidx >>
       \/ /\ user_ids' \in UserIdsValues
          /\ message' = Messages(new_relevant_listings)
          /\ sidx' = 1
          /\ pc' = "send"
          /\ UNCHANGED crash
    /\ UNCHANGED << phase, cfgVars, csvVars, cacheVars, driverVars, fetchVars,
                    cycleVars, osmVars, sendLog, paused, firstRunIds, baseline,
                    first_run, empty_fetch, io_failed >>

\* write_telegram_message returns: in monitor_changes time.sleep(5) runs
\* before the regular sleep; the test script ends.
AfterDispatch ==
    IF entry = "main"
    THEN pc' = "sleep" /\ paused' = TRUE
    ELSE pc' = "exit" /\ UNCHANGED paused

Attempt(ok) == [to |-> user_ids[sidx], text |-> message, ok |-> ok]

\* await bot.send_message(...) returns: the for loop moves on.
SendOk ==
    /\ pc = "send"
    /\ sidx <= Len(user_ids)
    /\ sendLog' = Append(sendLog, Attempt(TRUE))
    /\ sidx' = sidx + 1
    /\ UNCHANGED << pc, phase, crash, cfgVars, csvVars, cacheVars, driverVars,
                    fetchVars, cycleVars, osmVars, message, user_ids, paused,
                    histVars >>

\* bot.send_message raises TelegramError: the except clause around the
\* whole for loop logs it and the function returns.
SendFails ==
    /\ pc = "send"
    /\ sidx <= Len(user_ids)
    /\ sendLog' = Append(sendLog, Attempt(FALSE))
    /\ AfterDispatch
    /\ UNCHANGED << phase, crash, cfgVars, csvVars, cacheVars, driverVars,
                    fetchVars, cycleVars, osmVars, message, user_ids, sidx,
                    histVars >>

\* The for loop is exhausted: "Messages sent successfully!".
SendDone ==
    /\ pc = "send"
    /\ sidx > Len(user_ids)
    /\ AfterDispatch
    /\ UNCHANGED << phase, crash, cfgVars, csvVars, cacheVars, driverVars,
                    fetchVars, cycleVars, osmVars, message, user_ids, sidx,
                    sendLog, histVars >>

(* ------------------------------- sleeping ------------------------------ *)
\* time.sleep(sleep_interval), then the next iteration of while True.
Sleep ==
    /\ pc = "sleep"
    /\ pc' = "read"
    /\ ResetCycle
    /\ UNCHANGED << phase, crash, cfgVars, csvVars, cacheVars, driverVars,
                    osmVars, sendLog, histVars >>

Next ==
    \/ Main
    \/ GetListingsFromCsv
    \/ FetchTimeout
    \/ FetchOk
    \/ ExtractItem
    \/ OsmCall
    \/ GetUnknownOsmAdresses
    \/ OsmRequestOk
    \/ OsmRequestTimeout
    \/ OsmRequestError
    \/ SaveInvalidAddresses
    \/ FirstTimeListings
    \/ CurrentListings
    \/ Diff
    \/ SaveOpenFails
    \/ SaveWrites
    \/ Filter
    \/ WriteTelegramMessage
    \/ SendOk
    \/ SendFails
    \/ SendDone
    \/ Sleep

Spec == Init /\ [][Next]_vars

(* =============================== claims ================================ *)
Range(f) == { f[i] : i \in DOMAIN f }
SeqsUpTo(S, n) == UNION { [1..k -> S] : k \in 0..n }

\* The ids a composed message renders in full.
RenderedIds(text) == { text[i].id : i \in { j \in DOMAIN text : text[j].kind = "listing" } }

\* The ids carried by some send attempt so far.
SentIds == UNION { RenderedIds(sendLog[i].text) : i \in DOMAIN sendLog }

\* write_telegram_message has returned normally.
DispatchReturned == pc = "exit" \/ (pc = "sleep" /\ paused)

\* C1: the persisted catalog never holds two rows with the same id,
\* whatever the read and write outcomes and the batches fetched.
C1_CatalogDuplicateFree ==
    \A i, j \in DOMAIN rows : i # j => rows[i] # rows[j]

IsOrderedDifference(result, batch, known) ==
    LET P == { i \in DOMAIN batch : batch[i].listing_id \notin known }
        kth(k) == CHOOSE i \in P : Cardinality({ j \in P : j < i }) = k - 1
    IN /\ Len(result) = Cardinality(P)
       /\ \A k \in 1..Len(result) : result[k] = batch[kth(k)]

KnownIds == { old_listings[i].listing_id : i \in DOMAIN old_listings }

\* C3, state part: once a cycle has computed new_listings they are the
\* ordered difference of the fetched batch and the ids read from the
\* catalog, and the filter iterates over exactly these.
C3_DiffState ==
    /\ (phase = "loop" /\ pc \in {"save", "filter"}) =>
          IsOrderedDifference(new_listings, current_listings, KnownIds)
    /\ (phase = "loop" /\ evaluated # <<>>) =>
          /\ evaluated = new_listings
          /\ IsOrderedDifference(evaluated, current_listings, KnownIds)

\* C3, step part: a catalog append in a poll cycle adds rows of the ordered
\* difference only, in order.
C3_AppendStep ==
    (phase = "loop" /\ rows' # rows) =>
        \E d \in SeqsUpTo(Range(current_listings), Len(current_listings)) :
            /\ IsOrderedDifference(d, current_listings, KnownIds)
            /\ \E k \in 1..Len(d) :
                 rows' = rows \o [i \in 1..k |-> d[i].listing_id]

\* C3: in every poll cycle the unseen listings are exactly the batch
\* elements whose id is not among the known ids, in batch order; only these
\* are appended to the catalog and only these are evaluated by the filter.
C3_SetDifference == [](C3_DiffState) /\ [][C3_AppendStep]_vars

\* C3 witness: the catalog held A1, the fetch returned A1 then B2, and the
\* cycle appended and filtered B2 only.
C3_Witness ==
    /\ phase = "loop" /\ pc = "sleep"
    /\ KnownIds = {"A1"}
    /\ Len(current_listings) = 2
    /\ current_listings[1].listing_id = "A1"
    /\ current_listings[2].listing_id = "B2"
    /\ Len(evaluated) = 1 /\ evaluated[1].listing_id = "B2"
    /\ rows = << "A1", "B2" >>

Min(a, b) == IF a <= b THEN a ELSE b

\* A message has been composed for the current dispatch call.
Composed == pc = "send" \/ DispatchReturned

\* C4: for n >= 1 listings the message renders exactly the first min(n, 5)
\* in order, and ends with the single omitted-count line iff n > 5, the
\* line then stating n - 5.
C4_TruncationRule ==
    (Composed /\ Len(new_relevant_listings) >= 1) =>
        LET n == Len(new_relevant_listings)
            full == { j \in DOMAIN message : message[j].kind = "listing" }
            more == { j \in DOMAIN message : message[j].kind = "more" }
        IN /\ full = 1..Min(n, MAX_RENDERED)
           /\ \A j \in full : message[j].id = new_relevant_listings[j].listing_id
           /\ (more # {}) <=> (n > MAX_RENDERED)
           /\ \A j \in more : j = Len(message) /\ message[j].n = n - MAX_RENDERED

\* C5: when a dispatch call returns, a send has been attempted for every
\* configured recipient, also after a failed send to an earlier one.
C5_AllRecipientsAttempted ==
    DispatchReturned =>
        \A i \in DOMAIN user_ids :
            \E j \in DOMAIN sendLog : sendLog[j].to = user_ids[i]

\* The five criteria as specified, the balcony flag compared with the
\* configured boolean.
RequiredBalcony(hb) == (hb = "True")
PassesAsSpecified(l, hb) ==
    /\ l.size_qm >= MINIMAL_SIZE
    /\ l.base_rent <= MAXIMAL_BASE_RENT
    /\ l.has_balkony = RequiredBalcony(hb)
    /\ l.district \notin FORBIDDEN_DISTRICTS
    /\ (~l.wbs_required \/ l.number_rooms <= WBS_ROOM_LIMIT)

\* C6: a new listing is selected for notification iff all five criteria
\* hold.
C6_FilterIff ==
    (phase = "loop" /\ evaluated # <<>>) =>
        \A i \in DOMAIN evaluated :
            InSeq(evaluated[i], new_relevant_listings)
                <=> PassesAsSpecified(evaluated[i], HAS_BALKONY)

\* C7: once the poll loop has been entered the process never ends with an
\* uncaught exception.
C7_NoCrashInLoop ==
    (entry = "main" /\ phase = "loop") => pc # "crashed"

\* C8: every listing handed to the dispatcher (unseen and passing the
\* filter) is carried by at least one send attempt once the dispatch is
\* over, however it ended.
C8_PassingListingAttempted ==
    (DispatchReturned \/ (pc = "crashed" /\ crash = "KeyError: USER_IDS")) =>
        \A i \in DOMAIN new_relevant_listings :
            new_relevant_listings[i].listing_id \in SentIds

\* An item whose extraction succeeds: enough fields, numeric fields that
\* parse, and the link sub-element present.
Extractable(item) == item.nfields >= 4 /\ item.numeric /\ item.link

\* C9: the extraction result is the subsequence, in fetch order, of the
\* listings of the items that extract; a failing item adds no record, not
\* even an empty one, and never aborts the batch.
C9_ExtractionSubsequence ==
    /\ pc = "extract" =>
          LET ok == SelectSeq(items, Extractable)
          IN /\ Len(structured_listings) = Len(ok)
             /\ \A k \in DOMAIN structured_listings :
                  /\ structured_listings[k] # EmptyDict
                  /\ k <= Len(ok) => structured_listings[k].listing_id = ok[k].id
    /\ crash # "NoSuchElementException"

\* C10: the district resolver never raises to its caller, and when the
\* lookup gave up or failed it returns "Unknown".
C10_ResolverNeverRaises ==
    /\ crash # "OSError: unkown_osm_adresses.yaml"
    /\ (/\ pc = "extract" /\ items # <<>>
        /\ DetailsOutcome(CurrentItem) = "osm"
        /\ (retry > MAX_RETRY \/ InSeq(OsmAddress, unknown_osm_addresses)))
       => structured_listings[Len(structured_listings)].district = "Unknown"

\* The dispatcher has been called in the current poll cycle.
DispatcherCalled == sidx > 0

C11_SendState ==
    (entry = "main" /\ (DispatcherCalled \/ pc \in {"notify", "send"})) =>
        /\ new_relevant_listings # <<>>
        /\ new_relevant_listings = NewRelevantListings(new_listings, HAS_BALKONY)

C11_SendStep ==
    (entry = "main" /\ sendLog' # sendLog) =>
        /\ new_listings # <<>>
        /\ \E i \in DOMAIN new_listings : Relevant(new_listings[i], HAS_BALKONY)

\* C11: in a poll cycle the transport is called only if the cycle's
\* passing listings are non-empty; a cycle without unseen listings, or with
\* unseen listings none of which passes, calls neither the dispatcher nor
\* the transport.
C11_SendOnlyIfPassing == [](C11_SendState) /\ [][C11_SendStep]_vars

\* C11 witness: a cycle found unseen listings, filtered them, none passed,
\* and the cycle reached its sleep without a dispatch.
C11_Witness ==
    /\ entry = "main" /\ phase = "loop" /\ pc = "sleep"
    /\ new_listings # <<>> /\ evaluated = new_listings
    /\ new_relevant_listings = <<>>
    /\ ~DispatcherCalled /\ sendLog = <<>>

\* The rows a complete append of the call's argument adds.
ArgumentRows == [i \in DOMAIN SaveArgument |-> RowOf(SaveArgument[i])]

\* A step of save_listings_to_csv(new_listings) that ended in the caught
\* I/O error: the call returned without having written every row.
AppendFailed ==
    /\ phase = "loop" /\ pc = "save" /\ pc' # "save" /\ pc' # "crashed"
    /\ rows' # rows \o ArgumentRows

\* C12: a catalog append that fails with an I/O error does not end the
\* process and records none of the listings it was given, so that the next
\* read of the catalog yields none of their ids.
C12_FailedAppendRecordsNothing ==
    [][AppendFailed => (crash' = "" /\ rows' = rows)]_vars

\* The lookup outcomes that are transient network conditions.
TransientOsmErrors == {"ConnectionError"}

\* get_district_from_osm has just returned for the current element.
ResolveReturned ==
    /\ pc = "extract" /\ items # <<>>
    /\ DetailsOutcome(CurrentItem) = "osm"

\* C13: a resolve call for an uncached address issues at most 3 lookups;
\* no timeout or transient network outcome is handled as a permanent
\* failure; and when every attempt timed out the call returns "Unknown"
\* and leaves the cache, in memory and on file, without the address.
C13_TransientRetried ==
    /\ lookups <= MAX_RETRY + 1
    /\ pc = "osm_save" => osm_error \notin TransientOsmErrors
    /\ (ResolveReturned /\ retry > MAX_RETRY) =>
          /\ lookups = MAX_RETRY + 1
          /\ structured_listings[Len(structured_listings)].district = "Unknown"
          /\ cacheFile = unknown_osm_addresses
          /\ ~InSeq(OsmAddress, cacheFile)

\* The lookup outcomes that are permanent failures (no result for the
\* address).
PermanentOsmErrors == OsmErrors \ TransientOsmErrors

\* The lookup of the current element's address has failed permanently and
\* the handling of that failure is over, by a return or by an exception.
PermanentFailureHandled ==
    /\ items # <<>> /\ DetailsOutcome(CurrentItem) = "osm"
    /\ \/ ResolveReturned /\ lookups > 0 /\ retry <= MAX_RETRY
             /\ InSeq(OsmAddress, unknown_osm_addresses)
       \/ pc = "crashed" /\ osm_error \in PermanentOsmErrors

C14_CacheState ==
    /\ \A i, j \in DOMAIN cacheFile : i # j => cacheFile[i] # cacheFile[j]
    /\ PermanentFailureHandled =>
          /\ InSeq(OsmAddress, cacheFile)
          /\ pc = "extract"
          /\ structured_listings[Len(structured_listings)].district = "Unknown"

C14_CacheStep == \A i \in DOMAIN cacheFile : InSeq(cacheFile[i], cacheFile')

\* C14: the persisted unresolved-address cache holds every address whose
\* lookup failed permanently, holds no address twice and never loses an
\* entry; the resolve call that met the permanent failure returns "Unknown".
C14_CacheComplete == [](C14_CacheState) /\ [][C14_CacheStep]_vars

\* The list loaded by the current resolve call holds the address.
CacheHit == InSeq(OsmAddress, unknown_osm_addresses)

C15_HitState == pc \in {"osm_req", "osm_save"} => (lookups = 0 => ~CacheHit)

C15_HitStep ==
    (pc = "osm_load" /\ pc' # "crashed" /\ CacheHit') =>
        /\ pc' = "extract"
        /\ structured_listings'[Len(structured_listings')].district = "Unknown"
        /\ lookups' = 0
        /\ cacheFile' = cacheFile

\* C15: a resolve call that finds its address in the unresolved-address
\* cache returns "Unknown", issues no lookup and leaves the cache as it is.
C15_CacheHitShortCircuits == [](C15_HitState) /\ [][C15_HitStep]_vars

\* C15 witness: a resolve call returned "Unknown" for an address the
\* persisted cache already held, having issued no lookup.
C15_Witness ==
    /\ ResolveReturned /\ CacheHit /\ lookups = 0
    /\ InSeq(OsmAddress, cacheFile)
    /\ structured_listings[Len(structured_listings)].district = "Unknown"

\* A fetch attempt is made with the driver acquired last.
C16_FetchState == pc = "fetch" => ldriver = ndrivers

\* A fetch attempt either times out, after which a driver is acquired and
\* the fetch is attempted again, or succeeds and ends the fetch step.
C16_FetchStep ==
    pc = "fetch" =>
        /\ crash' = ""
        /\ \/ pc' = "fetch" /\ ndrivers' = ndrivers + 1 /\ ldriver' = ndrivers'
           \/ pc' = "extract" /\ ndrivers' = ndrivers

\* C16: a fetch timeout does not end the process; a driver is reacquired
\* and the fetch retried until one attempt succeeds, and every later fetch,
\* in this and the following cycles, uses the reacquired driver.
C16_ReacquiredDriverUsed == [](C16_FetchState) /\ [][C16_FetchStep]_vars

\* C17: at most one acquired driver is unreleased at any time (a replaced
\* driver is released before its replacement is acquired), and none is once
\* the process has ended, whichever stage raised.
C17_DriversReleased ==
    /\ Cardinality(UnreleasedDrivers) <= 1
    /\ pc \in {"crashed", "exit"} => UnreleasedDrivers = {}

\* Between an empty fetch and the next page load the scheduler is reading
\* the catalog or attempting the fetch, nowhere else.
C18_RestartState ==
    empty_fetch => (pc \in {"read", "fetch"} /\ ~paused)

\* In that interval nothing is appended to the catalog and nothing is sent.
C18_RestartStep ==
    /\ empty_fetch => (rows' = rows /\ sendLog' = sendLog /\ pc' # "sleep")
    /\ (pc = "extract" /\ phase = "loop" /\ structured_listings = <<>>
          /\ pc' \notin {"extract", "osm_load", "crashed"})
         => (empty_fetch' /\ pc' = "read")

\* C18: a poll cycle whose fetch yields no extracted listing is followed by
\* the next fetch at once: no inter-cycle sleep, no catalog append and no
\* send happens in between.
C18_EmptyFetchRestarts == [](C18_RestartState) /\ [][C18_RestartStep]_vars

\* C18 witness: after an empty fetch the next fetch is being attempted.
C18_Witness == empty_fetch /\ pc = "fetch" /\ phase = "loop" /\ sendLog = <<>>

\* The cycle read the catalog and has since appended all its unseen
\* listings to it.
UnseenPersisted ==
    /\ old_listings # <<>>
    /\ Len(rows) = Len(old_listings) + Len(new_listings)
    /\ SubSeq(rows, Len(old_listings) + 1, Len(rows)) = ArgumentRows

\* C19: when a poll cycle reaches its regular sleep, the short pause has
\* been performed if the cycle found and persisted unseen listings, passing
\* the filter or not, and has not been performed if it found none.
C19_PauseAfterUnseen ==
    (entry = "main" /\ phase = "loop" /\ pc = "sleep") =>
        /\ (new_listings # <<>> /\ UnseenPersisted) => paused
        /\ new_listings = <<>> => ~paused

====
